---- MODULE Spec2Model ----
(***************************************************************************)
(* Crop Doctor API: the lazily loaded detection model (app/inference.py),  *)
(* the reduction of detections to a prediction result, the translation     *)
(* post-processing (app/translator.py) and the request handlers            *)
(* (app/main.py).                                                          *)
(*                                                                         *)
(* Three specifications:                                                   *)
(*   Spec            the server as uvicorn runs it: every handler is an    *)
(*                   "async def" without an await after reading the        *)
(*                   upload, so a handler runs to its response in one step *)
(*                   of the event loop;                                    *)
(*   SpecThreads     get_model() called from several threads, one          *)
(*                   statement of get_model per step;                      *)
(*   SpecTranslator  direct calls of the TranslationService methods.       *)
(***************************************************************************)
EXTENDS Integers, Sequences, FiniteSets, TLC

\* ---------------------------------------------------------------- bounds
MaxDet == 2          \* detections returned by one inference call
MaxConf == 2         \* confidence levels 1..MaxConf (0 is the sentinel's 0.0)
NumThreads == 2      \* threads calling get_model() in SpecThreads
NumRequests == 2     \* requests in flight on the event loop in SpecLoop
MaxY1 == 21          \* the top edge y1 of a box lies in -1..MaxY1

\* ------------------------------------------------------------- constants
None == 0                                  \* Python None for the model handle
ClassNames == <<"Leaf Blight", "Healthy">> \* result.names, ids 0 and 1
PaletteSize == 8
NoDisease == "No Disease Detected"
Langs == {"en", "es"}                      \* two of SUPPORTED_LANGUAGES
LangParams == {"none"} \cup Langs          \* the optional ?lang= parameter
Texts == {ClassNames[i] : i \in 1..Len(ClassNames)} \cup {NoDisease}
\* SUPPORTED_LANGUAGES as a set of (code, name) items, for the codes of Langs
SUPPORTED_LANGUAGES == {<<"en", "English">>, <<"es", "Spanish">>}
\* the items a caller may leave in a dict it holds
LangItems == SUPPORTED_LANGUAGES \cup {<<"es", "Espanol">>, <<"xx", "Klingon">>}
\* torch.load as the library installs it
OriginalLoad == 0
\* the patched_load function defined by the construction running in thread t
patched_load(t) == t

ClassIds == 0..(Len(ClassNames) - 1)
Confidences == 1..MaxConf
Detection == [cls : ClassIds, conf : Confidences]
DetSeqs == UNION {[1..n -> Detection] : n \in 0..MaxDet}
\* result.boxes: None, or a (possibly empty) sequence of detections
Boxes == {[none |-> TRUE, dets |-> <<>>]} \cup
         {[none |-> FALSE, dets |-> d] : d \in DetSeqs}
Threads == 1..NumThreads
Requests == 1..NumRequests

\* main.py: "from app.inference import get_model" worked.  inference.py
\* catches the ImportError of the detection library itself, and every other
\* module it imports is imported by main.py without a guard, so the flag is
\* True in every process that starts.
INFERENCE_AVAILABLE == TRUE

VARIABLES
    ULTRALYTICS_AVAILABLE, \* inference.py: flag set once, at import
    libInstalled,          \* environment: the detection library is installed
    weights,               \* environment: "missing", "corrupt" or "good"
    model_instance,        \* inference.py: _model_instance (None or a handle)
    loads,                 \* number of ModelInference objects constructed
    failedIn,              \* history: the callers in which a construction raised
    started,               \* the startup event has run
    resp,                  \* Spec: outcome of the handler that ran last
    pc, obj, ret,          \* SpecThreads: position, local object, returned handle
    call,                  \* SpecTranslator: the last direct call and its result
    langObjs,              \* the language dicts: [1] is SUPPORTED_LANGUAGES,
                           \* [2] the dict a caller was handed
    torch_load,            \* the function bound to torch.load
    original_load,         \* SpecThreads: __init__'s local original_load
    tasks,                 \* SpecLoop: each request's endpoint, lang and position
    running,               \* SpecLoop: the request whose handler runs on the
                           \* event loop (0: the loop is free)
    drawn                  \* SpecAnnotate: the last label drawn

vars == <<ULTRALYTICS_AVAILABLE, libInstalled, weights, model_instance, loads,
          failedIn, started, resp, pc, obj, ret, call, langObjs, torch_load,
          original_load, tasks, running, drawn>>

loopVars == <<tasks, running>>

heapVars == <<langObjs, torch_load, original_load>>

envVars == <<ULTRALYTICS_AVAILABLE, libInstalled, weights>>
modelVars == <<model_instance, loads, failedIn>>
threadVars == <<pc, obj, ret>>

\* ------------------------------------------------- inference.py: loading

\* ModelInference.__init__: the exception it raises, or "ok"
ModelInference_init ==
    IF ~ULTRALYTICS_AVAILABLE THEN "ImportError"
    ELSE IF weights = "missing" THEN "FileNotFoundError"
    ELSE IF weights = "corrupt" THEN "RuntimeError"
    ELSE "ok"

\* utils.check_model_exists
check_model_exists == weights # "missing"

\* a get_model() without the "is None" test: every call constructs
get_model_reload ==
    IF ModelInference_init = "ok"
    THEN [exc |-> "none", ret |-> loads + 1, inst |-> loads + 1,
          loads |-> loads + 1, attempts |-> 1]
    ELSE [exc |-> ModelInference_init, ret |-> None, inst |-> model_instance,
          loads |-> loads, attempts |-> 1]

\* a get_model() that remembers a failed construction (-1) and fails every
\* later call without constructing again
get_model_caches_failure ==
    IF model_instance = None
    THEN IF ModelInference_init = "ok"
         THEN [exc |-> "none", ret |-> loads + 1, inst |-> loads + 1,
               loads |-> loads + 1, attempts |-> 1]
         ELSE [exc |-> ModelInference_init, ret |-> None, inst |-> -1,
               loads |-> loads, attempts |-> 1]
    ELSE IF model_instance = -1
    THEN [exc |-> "RuntimeError", ret |-> None, inst |-> model_instance,
          loads |-> loads, attempts |-> 0]
    ELSE [exc |-> "none", ret |-> model_instance, inst |-> model_instance,
          loads |-> loads, attempts |-> 0]

\* get_model() run without interruption: the exception raised ("none" if it
\* returns), the handle returned, the new cache and load count, and the
\* number of ModelInference constructions attempted.
get_model ==
    IF ~INFERENCE_AVAILABLE
    THEN [exc |-> "ImportError", ret |-> None, inst |-> model_instance,
          loads |-> loads, attempts |-> 0]
    ELSE IF model_instance = None
    THEN IF ModelInference_init = "ok"
         THEN [exc |-> "none", ret |-> loads + 1, inst |-> loads + 1,
               loads |-> loads + 1, attempts |-> 1]
         ELSE [exc |-> ModelInference_init, ret |-> None,
               inst |-> model_instance, loads |-> loads, attempts |-> 1]
    ELSE [exc |-> "none", ret |-> model_instance, inst |-> model_instance,
          loads |-> loads, attempts |-> 0]

\* --------------------------------------------- inference.py: prediction

Reverse(s) == [i \in 1..Len(s) |-> s[Len(s) + 1 - i]]

\* insert x into the ascending sequence s behind every element whose key is
\* not larger (a stable insertion)
InsertByKey(s, x) ==
    LET k == Cardinality({i \in 1..Len(s) : s[i].confidence <= x.confidence})
    IN  SubSeq(s, 1, k) \o <<x>> \o SubSeq(s, k + 1, Len(s))

RECURSIVE StableSortAsc(_)
StableSortAsc(s) ==
    IF s = <<>> THEN <<>>
    ELSE InsertByKey(StableSortAsc(SubSeq(s, 1, Len(s) - 1)), s[Len(s)])

\* a sort that loses the original order of equal keys
ListSortReverseUnstable(s) == Reverse(StableSortAsc(s))

\* list.sort(key=confidence, reverse=True): CPython reverses the list, sorts
\* it stably in ascending order and reverses it again
ListSortReverse(s) == Reverse(StableSortAsc(Reverse(s)))

\* ---- the label of one detection
\* font_paths, in the order probed; a host has each file absent, present but
\* not loadable (ImageFont.truetype raises), or loadable, and a Pillow whose
\* built-in default font loads or not
font_paths == <<"/System/Library/Fonts/Helvetica.ttc",
                "/usr/share/fonts/truetype/dejavu/DejaVuSans.ttf",
                "C:/Windows/Fonts/arial.ttf">>
Hosts == [files : [1..Len(font_paths) -> {"absent", "broken", "ok"}],
          default_ok : BOOLEAN]
NoFont == "None"

\* the font after the probing loop: the first loadable file (a broken file
\* raises and the loop continues), else ImageFont.load_default(); when that
\* raises, the outer except leaves font = None
ResolveFont(host) ==
    IF \E i \in 1..Len(font_paths) : host.files[i] = "ok"
    THEN "truetype"
    ELSE IF host.default_ok THEN "default" ELSE NoFont

\* how measuring goes when there is a font: draw.textbbox returns;
\* draw.textbbox raises AttributeError and draw.textsize returns; or an
\* exception reaches the outer except
MeasureOutcomes == {"textbbox", "textsize", "raises"}

\* len(f"{class_name}: {confidence:.2f}") for a confidence in [0, 1]
LabelLen(class_name) == Len(class_name) + 6

\* the extent Pillow reports for n characters in the font
GlyphExtent(font, n) ==
    IF font = "truetype" THEN [width |-> 9 * n, height |-> 15]
    ELSE [width |-> 6 * n, height |-> 11]

\* "text_width = len(label) * 6; text_height = 12"
EstimatedSize(n) == [width |-> n * 6, height |-> 12]

\* text_width and text_height
TextSize(font, measure, n) ==
    IF font # NoFont /\ measure # "raises"
    THEN GlyphExtent(font, n)
    ELSE EstimatedSize(n)

Max(a, b) == IF a >= b THEN a ELSE b

\* "label_y = max(0, y1 - text_height - 5)"
LabelY(y1, text_height) == Max(0, y1 - text_height - 5)

\* draw.text: with font=font it draws; without a font argument Pillow draws
\* with ImageDraw.getfont(), which calls ImageFont.load_default() itself
DrawTextRaises(font, host) == font = NoFont /\ ~host.default_ok

\* lines 135-155 and 183-221 for one detection on one host
DrawLabel(host, measure, cls, y1) ==
    LET font == ResolveFont(host)
        n == LabelLen(ClassNames[cls + 1])
        size == TextSize(font, measure, n)
    IN  [op |-> "label", host |-> <<host>>, measure |-> measure, y1 |-> y1,
         chars |-> n, color |-> cls % PaletteSize, font |-> font,
         text_width |-> size.width, text_height |-> size.height,
         label_y |-> LabelY(y1, size.height),
         raised |-> DrawTextRaises(font, host)]

NoLabel == [op |-> "none", host |-> <<>>, measure |-> "textbbox", y1 |-> 0,
            chars |-> 0, color |-> 0, font |-> NoFont, text_width |-> 0,
            text_height |-> 0, label_y |-> 0, raised |-> FALSE]

\* the overlay drawn for each detection, in detection order
Annotate(dets) ==
    [i \in 1..Len(dets) |->
        [color |-> dets[i].cls % PaletteSize,
         label |-> <<ClassNames[dets[i].cls + 1], dets[i].conf>>]]

Items(dets) ==
    [i \in 1..Len(dets) |->
        [class_name |-> ClassNames[dets[i].cls + 1], confidence |-> dets[i].conf]]

SentinelResult ==
    [disease |-> NoDisease, confidence |-> 0,
     all_predictions |-> <<[class_name |-> NoDisease, confidence |-> 0]>>,
     annotated_image |-> <<>>]

\* a predict without the "else" branch: no detection leaves the list empty
predictEmptyList(boxes) ==
    IF ~boxes.none /\ Len(boxes.dets) > 0
    THEN LET all == ListSortReverse(Items(boxes.dets))
         IN  [disease |-> all[1].class_name, confidence |-> all[1].confidence,
              all_predictions |-> all,
              annotated_image |-> Annotate(boxes.dets)]
    ELSE [SentinelResult EXCEPT !.all_predictions = <<>>]

\* a predict that takes the primary prediction before the sort
predictFirstDetection(boxes) ==
    IF ~boxes.none /\ Len(boxes.dets) > 0
    THEN LET all == Items(boxes.dets)
         IN  [disease |-> all[1].class_name, confidence |-> all[1].confidence,
              all_predictions |-> ListSortReverse(all),
              annotated_image |-> Annotate(boxes.dets)]
    ELSE SentinelResult

\* ModelInference.predict, from the boxes the model returned
predict(boxes) ==
    IF ~boxes.none /\ Len(boxes.dets) > 0
    THEN LET all == ListSortReverse(Items(boxes.dets))
         IN  [disease |-> all[1].class_name, confidence |-> all[1].confidence,
              all_predictions |-> all,
              annotated_image |-> Annotate(boxes.dets)]
    ELSE SentinelResult

\* ------------------------------------------------------- translator.py

\* the external translation capability (GoogleTranslator.translate): a
\* deterministic function of its arguments that changes the text
GoogleTranslate(text, source, target) == "[" \o target \o "] " \o text

\* a translate_text whose shortcut tests the default language only
translate_text_en_only(text, target_lang, source_lang, raises) ==
    IF target_lang = "en"
    THEN [out |-> text, sent |-> <<>>]
    ELSE IF raises
         THEN [out |-> text, sent |-> <<text>>]
         ELSE [out |-> GoogleTranslate(text, source_lang, target_lang),
               sent |-> <<text>>]

\* a translate_text that submits the text a second time when the external
\* call raises
translate_text_retry(text, target_lang, source_lang, raises) ==
    IF target_lang = "en" \/ target_lang = source_lang
    THEN [out |-> text, sent |-> <<>>]
    ELSE IF raises
         THEN [out |-> text, sent |-> <<text, text>>]
         ELSE [out |-> GoogleTranslate(text, source_lang, target_lang),
               sent |-> <<text>>]

\* translate_text: the string returned and the texts submitted to the
\* external capability; raises says whether the external call raises
translate_text(text, target_lang, source_lang, raises) ==
    IF target_lang = "en" \/ target_lang = source_lang
    THEN [out |-> text, sent |-> <<>>]
    ELSE IF raises
         THEN [out |-> text, sent |-> <<text>>]
         ELSE [out |-> GoogleTranslate(text, source_lang, target_lang),
               sent |-> <<text>>]

RECURSIVE Flatten(_)
Flatten(ss) == IF ss = <<>> THEN <<>> ELSE Head(ss) \o Flatten(Tail(ss))

\* a translate_disease_names that gives up at the first failing call: the
\* items from there on keep their names and are not submitted
translate_disease_names_abort(predictions, target_lang, fails) ==
    IF target_lang = "en"
    THEN [out |-> predictions, sent |-> <<>>, arg |-> predictions]
    ELSE LET t(i) == translate_text(predictions[i].class_name, target_lang,
                                    "en", fails[i])
             ok(i) == \A j \in 1..(i - 1) : ~fails[j]
         IN  [out |-> [i \in 1..Len(predictions) |->
                         IF ok(i)
                         THEN [predictions[i] EXCEPT !.class_name = t(i).out]
                         ELSE predictions[i]],
              sent |-> Flatten([i \in 1..Len(predictions) |->
                                  IF ok(i) THEN t(i).sent ELSE <<>>]),
              arg |-> predictions]

\* translate_disease_names: fails[i] says whether the external call made for
\* predictions[i] raises. Each name is written to pred_dict, a new dict made
\* by pred.dict() / model_dump() / copy(), so arg, the items of the list
\* passed in as they are after the call, is the list passed in.
translate_disease_names(predictions, target_lang, fails) ==
    IF target_lang = "en"
    THEN [out |-> predictions, sent |-> <<>>, arg |-> predictions]
    ELSE LET t(i) == translate_text(predictions[i].class_name, target_lang,
                                    "en", fails[i])
         IN  [out |-> [i \in 1..Len(predictions) |->
                         [predictions[i] EXCEPT !.class_name = t(i).out]],
              sent |-> Flatten([i \in 1..Len(predictions) |-> t(i).sent]),
              arg |-> predictions]

\* a translate_prediction_response that writes to the dict it was passed
translate_prediction_response_inplace(response, target_lang, fails) ==
    IF target_lang = "en"
    THEN [out |-> response, sent |-> <<>>, arg |-> response]
    ELSE LET d == translate_text(response.disease, target_lang, "en", fails[1])
             n == Len(response.all_predictions)
             p == translate_disease_names(response.all_predictions, target_lang,
                                          [i \in 1..n |-> fails[i + 1]])
             translated_response ==
                 [response EXCEPT !.disease = d.out, !.all_predictions = p.out]
         IN  [out |-> translated_response, sent |-> d.sent \o p.sent,
              arg |-> translated_response]

\* translate_prediction_response: fails[1] is the call for disease,
\* fails[i + 1] the call for all_predictions[i]. The writes go to
\* response.copy(), a shallow copy: the dict passed in keeps its keys, and
\* its all_predictions list, shared with the copy until the copy's key is
\* rebound, holds the items as translate_disease_names left them (arg).
translate_prediction_response(response, target_lang, fails) ==
    IF target_lang = "en"
    THEN [out |-> response, sent |-> <<>>, arg |-> response]
    ELSE LET d == translate_text(response.disease, target_lang, "en", fails[1])
             n == Len(response.all_predictions)
             p == translate_disease_names(response.all_predictions, target_lang,
                                          [i \in 1..n |-> fails[i + 1]])
         IN  [out |-> [response EXCEPT !.disease = d.out,
                                       !.all_predictions = p.out],
              sent |-> d.sent \o p.sent,
              arg |-> [response EXCEPT !.all_predictions = p.arg]]

FailPatterns(n) == [1..n -> BOOLEAN]

\* a get_supported_languages that hands out the service's own dict
get_supported_languages_alias ==
    [ref |-> 1, objs |-> langObjs, sent |-> <<>>]

\* get_supported_languages: self.supported_langs is SUPPORTED_LANGUAGES
\* itself (object 1); copy() makes a new dict (object 2) with its items.
\* The reference returned, the dicts afterwards, the texts submitted.
get_supported_languages ==
    [ref |-> 2, objs |-> [langObjs EXCEPT ![2] = langObjs[1]], sent |-> <<>>]

\* ------------------------------------------------------ main.py: handlers

Uploads == {"not_image", "invalid", "ok"}
InferExceptions == {"RuntimeError", "FileNotFoundError"}
\* self.model(image): raises, or returns results whose boxes are given
InferOutcomes ==
    {[exc |-> e, boxes |-> [none |-> TRUE, dets |-> <<>>]] : e \in InferExceptions}
    \cup {[exc |-> "none", boxes |-> b] : b \in Boxes}

NoResp ==
    [op |-> "none", status |-> 0, body |-> <<>>, raw |-> <<>>, lang |-> "none",
     fails |-> <<>>, sent |-> <<>>, boxes |-> [none |-> TRUE, dets |-> <<>>],
     gotModel |-> FALSE, handle |-> None, cacheBefore |-> None,
     loadAttempts |-> 0, loadExc |-> "none", inferCalls |-> 0,
     inferExc |-> "none", annotations |-> 0, translations |-> 0]

\* every exception mapped to the generic error
HttpStatusGeneric(exc) == IF exc = "none" THEN 200 ELSE 500

\* predict_disease, the except clauses: the status of the HTTPException
HttpStatus(exc) ==
    IF exc \in {"ImportError", "FileNotFoundError"} THEN 503 ELSE 500

\* what a handler's get_model() call leaves in the response record
WithModel(r, g) ==
    [r EXCEPT !.gotModel = TRUE, !.handle = g.ret,
              !.cacheBefore = model_instance,
              !.loadAttempts = g.attempts, !.loadExc = g.exc]

\* the history of failed constructions after a caller's get_model()
Failed(g, who) ==
    IF g.attempts = 1 /\ g.exc # "none" THEN failedIn \cup {who} ELSE failedIn

\* startup_event
Startup ==
    /\ ~started /\ resp.op = "none"
    /\ started' = TRUE
    /\ IF ~check_model_exists
       THEN /\ resp' = [NoResp EXCEPT !.op = "startup"]
            /\ UNCHANGED modelVars
       ELSE LET g == get_model
            IN  /\ resp' = WithModel([NoResp EXCEPT !.op = "startup"], g)
                /\ model_instance' = g.inst
                /\ loads' = g.loads
                /\ failedIn' = Failed(g, "startup")
    /\ UNCHANGED <<drawn, loopVars, envVars, heapVars, threadVars, call>>

\* health_check
Health ==
    /\ started /\ resp.op = "none"
    /\ LET g == get_model
           model_loaded == g.exc = "none"
       IN  /\ resp' = [WithModel([NoResp EXCEPT !.op = "health"], g) EXCEPT
                        !.status = 200,
                        !.body = <<[status |-> IF model_loaded THEN "healthy"
                                               ELSE "degraded",
                                    model_exists |-> check_model_exists,
                                    model_loaded |-> model_loaded,
                                    ultralytics_available |-> INFERENCE_AVAILABLE,
                                    error |-> g.exc = "ImportError"]>>]
           /\ model_instance' = g.inst
           /\ loads' = g.loads
           /\ failedIn' = Failed(g, "health")
    /\ UNCHANGED <<drawn, loopVars, envVars, heapVars, started, threadVars, call>>

\* predict_disease
Predict ==
    /\ started /\ resp.op = "none"
    /\ \E upload \in Uploads, lang \in LangParams :
        LET r0 == [NoResp EXCEPT !.op = "predict", !.lang = lang]
            g == get_model
            r1 == WithModel(r0, g)
        IN
        IF upload # "ok"
        THEN /\ resp' = [r0 EXCEPT !.status = 400]
             /\ UNCHANGED modelVars
        ELSE
        /\ model_instance' = g.inst
        /\ loads' = g.loads
        /\ failedIn' = Failed(g, "predict")
        /\ IF g.exc # "none"
           THEN resp' = [r1 EXCEPT !.status = HttpStatus(g.exc)]
           ELSE \E infer \in InferOutcomes :
                IF infer.exc # "none"
                THEN resp' = [r1 EXCEPT !.status = HttpStatus(infer.exc),
                                        !.inferCalls = 1,
                                        !.inferExc = infer.exc]
                ELSE LET raw == predict(infer.boxes)
                         r2 == [r1 EXCEPT !.status = 200, !.inferCalls = 1,
                                          !.boxes = infer.boxes,
                                          !.annotations = 1, !.raw = <<raw>>]
                     IN  IF lang # "none" /\ lang # "en"
                         THEN \E fails \in FailPatterns(1 + Len(raw.all_predictions)) :
                                LET t == translate_prediction_response(raw, lang, fails)
                                IN  resp' = [r2 EXCEPT !.body = <<t.out>>,
                                                       !.fails = fails,
                                                       !.sent = t.sent,
                                                       !.translations = 1]
                         ELSE resp' = [r2 EXCEPT !.body = <<raw>>]
    /\ UNCHANGED <<drawn, loopVars, envVars, heapVars, started, threadVars, call>>

\* the /translate endpoint
TranslateEndpoint ==
    /\ started /\ resp.op = "none"
    /\ \E text \in Texts, target \in Langs, source \in Langs, raises \in BOOLEAN :
        LET t == translate_text(text, target, source, raises)
        IN  resp' = [NoResp EXCEPT !.op = "translate", !.status = 200,
                                   !.lang = target,
                                   !.body = <<[translated_text |-> t.out,
                                               target_lang |-> target]>>,
                                   !.sent = t.sent]
    /\ UNCHANGED <<drawn, loopVars, envVars, heapVars, modelVars, started, threadVars, call>>

\* the /languages endpoint: the dict handed out is serialised and dropped
LanguagesEndpoint ==
    /\ started /\ resp.op = "none"
    /\ LET g == get_supported_languages
       IN  resp' = [NoResp EXCEPT !.op = "languages", !.status = 200,
                                  !.body = <<[languages |-> g.objs[g.ref]]>>,
                                  !.sent = g.sent]
    /\ UNCHANGED <<drawn, loopVars, envVars, heapVars, modelVars, started, threadVars, call>>

\* the response leaves the server; the event loop takes the next request
Deliver ==
    /\ resp.op # "none"
    /\ resp' = NoResp
    /\ UNCHANGED <<drawn, loopVars, envVars, heapVars, modelVars, started, threadVars, call>>

\* ------------------------------------------------------------ environment

\* The environment changes between two handlers: a handler runs to its
\* response without giving up the event loop, so a change during it is a
\* change before or after it.

\* the weights file is deployed, removed or replaced
SetWeights ==
    /\ resp.op = "none"
    /\ \E w \in {"missing", "corrupt", "good"} : w # weights /\ weights' = w
    /\ UNCHANGED <<drawn, loopVars, heapVars, ULTRALYTICS_AVAILABLE, libInstalled, modelVars, started,
                   resp, threadVars, call>>

\* the detection library is installed while the process runs
InstallLibrary ==
    /\ resp.op = "none"
    /\ ~libInstalled
    /\ libInstalled' = TRUE
    /\ UNCHANGED <<drawn, loopVars, heapVars, ULTRALYTICS_AVAILABLE, weights, modelVars, started, resp,
                   threadVars, call>>

IdleTask == [kind |-> "none", lang |-> "none", at |-> "idle"]

NoCall == [fn |-> "none", value |-> <<>>, lang |-> "en", source |-> "en",
           fails |-> <<>>, out |-> <<>>, sent |-> <<>>, arg |-> <<>>]

\* the state after the modules are imported: the library probe of
\* inference.py, the empty cache
Init ==
    /\ libInstalled \in BOOLEAN
    /\ ULTRALYTICS_AVAILABLE = libInstalled
    /\ weights \in {"missing", "corrupt", "good"}
    /\ model_instance = None
    /\ loads = 0
    /\ failedIn = {}
    /\ started = FALSE
    /\ resp = NoResp
    /\ pc = [t \in Threads |-> "idle"]
    /\ obj = [t \in Threads |-> None]
    /\ ret = [t \in Threads |-> None]
    /\ call = NoCall
    /\ langObjs = <<SUPPORTED_LANGUAGES, {}>>
    /\ torch_load = OriginalLoad
    /\ original_load = [t \in Threads |-> OriginalLoad]
    /\ tasks = [r \in Requests |-> IdleTask]
    /\ running = 0
    /\ drawn = NoLabel

Next ==
    \/ Startup
    \/ Health
    \/ Predict
    \/ TranslateEndpoint
    \/ LanguagesEndpoint
    \/ Deliver
    \/ SetWeights
    \/ InstallLibrary

Spec == Init /\ [][Next]_vars

\* ------------------------------------- get_model() called from threads

\* a thread calls get_model()
Call(t) ==
    /\ pc[t] \in {"idle", "done", "raised"}
    /\ pc' = [pc EXCEPT ![t] = IF INFERENCE_AVAILABLE THEN "check" ELSE "raised"]
    /\ obj' = [obj EXCEPT ![t] = None]
    /\ ret' = [ret EXCEPT ![t] = None]
    /\ UNCHANGED <<drawn, loopVars, envVars, heapVars, modelVars, started, resp, call>>

\* "if _model_instance is None:"
Check(t) ==
    /\ pc[t] = "check"
    /\ pc' = [pc EXCEPT ![t] = IF model_instance = None THEN "construct"
                               ELSE "return"]
    /\ UNCHANGED <<drawn, loopVars, envVars, heapVars, modelVars, started, resp, obj, ret, call>>

\* "ModelInference()", up to the try: the two checks, then
\* "original_load = torch.load" and "torch.load = patched_load"
Patch(t) ==
    /\ pc[t] = "construct"
    /\ IF ULTRALYTICS_AVAILABLE /\ weights # "missing"
       THEN /\ original_load' = [original_load EXCEPT ![t] = torch_load]
            /\ torch_load' = patched_load(t)
            /\ pc' = [pc EXCEPT ![t] = "load"]
            /\ UNCHANGED failedIn
       ELSE /\ pc' = [pc EXCEPT ![t] = "raised"]
            /\ failedIn' = failedIn \cup {"thread"}
            /\ UNCHANGED <<torch_load, original_load>>
    /\ UNCHANGED <<drawn, loopVars, envVars, langObjs, model_instance, loads, started,
                   resp, obj, ret, call>>

\* "ModelInference()", the try statement: YOLO(...) returns or raises, and
\* the finally clause runs "torch.load = original_load"
Construct(t) ==
    /\ pc[t] = "load"
    /\ torch_load' = original_load[t]
    /\ IF weights = "good"
       THEN /\ obj' = [obj EXCEPT ![t] = loads + 1]
            /\ loads' = loads + 1
            /\ pc' = [pc EXCEPT ![t] = "assign"]
            /\ UNCHANGED failedIn
       ELSE /\ pc' = [pc EXCEPT ![t] = "raised"]
            /\ failedIn' = failedIn \cup {"thread"}
            /\ UNCHANGED <<obj, loads>>
    /\ UNCHANGED <<drawn, loopVars, envVars, langObjs, original_load, model_instance,
                   started, resp, ret, call>>

\* "_model_instance = ...": the store to the global
Assign(t) ==
    /\ pc[t] = "assign"
    /\ model_instance' = obj[t]
    /\ pc' = [pc EXCEPT ![t] = "return"]
    /\ UNCHANGED <<drawn, loopVars, envVars, heapVars, loads, failedIn, started, resp, obj, ret, call>>

\* "return _model_instance": reads the global again
Return(t) ==
    /\ pc[t] = "return"
    /\ ret' = [ret EXCEPT ![t] = model_instance]
    /\ pc' = [pc EXCEPT ![t] = "done"]
    /\ UNCHANGED <<drawn, loopVars, envVars, heapVars, modelVars, started, resp, obj, call>>

NextThreads ==
    \/ \E t \in Threads : Call(t)
    \/ \E t \in Threads : Check(t)
    \/ \E t \in Threads : Patch(t)
    \/ \E t \in Threads : Construct(t)
    \/ \E t \in Threads : Assign(t)
    \/ \E t \in Threads : Return(t)
    \/ SetWeights
    \/ InstallLibrary

SpecThreads == Init /\ [][NextThreads]_vars

\* ------------------------------------ direct calls of TranslationService

CallTranslateText ==
    /\ call.fn = "none"
    /\ \E text \in Texts, target \in Langs, source \in Langs, raises \in BOOLEAN :
        LET t == translate_text(text, target, source, raises)
        IN  call' = [fn |-> "translate_text", value |-> <<text>>,
                     lang |-> target, source |-> source, fails |-> <<raises>>,
                     out |-> <<t.out>>, sent |-> t.sent, arg |-> <<text>>]
    /\ UNCHANGED <<drawn, loopVars, envVars, heapVars, modelVars, started, resp, threadVars>>

CallTranslateDiseaseNames ==
    /\ call.fn = "none"
    /\ \E b \in Boxes, target \in Langs :
        LET preds == predict(b).all_predictions
        IN  \E fails \in FailPatterns(Len(preds)) :
            LET t == translate_disease_names(preds, target, fails)
            IN  call' = [fn |-> "translate_disease_names", value |-> <<preds>>,
                         lang |-> target, source |-> "en", fails |-> fails,
                         out |-> <<t.out>>, sent |-> t.sent,
                         arg |-> <<t.arg>>]
    /\ UNCHANGED <<drawn, loopVars, envVars, heapVars, modelVars, started, resp, threadVars>>

CallTranslateResponse ==
    /\ call.fn = "none"
    /\ \E b \in Boxes, target \in Langs :
        LET r == predict(b)
        IN  \E fails \in FailPatterns(1 + Len(r.all_predictions)) :
            LET t == translate_prediction_response(r, target, fails)
            IN  call' = [fn |-> "translate_prediction_response",
                         value |-> <<r>>, lang |-> target, source |-> "en",
                         fails |-> fails, out |-> <<t.out>>, sent |-> t.sent,
                         arg |-> <<t.arg>>]
    /\ UNCHANGED <<drawn, loopVars, envVars, heapVars, modelVars, started, resp, threadVars>>

CallGetSupportedLanguages ==
    /\ call.fn = "none"
    /\ LET g == get_supported_languages
       IN  /\ call' = [NoCall EXCEPT !.fn = "get_supported_languages",
                                     !.out = <<g.ref>>, !.sent = g.sent]
           /\ langObjs' = g.objs
    /\ UNCHANGED <<drawn, loopVars, envVars, torch_load, original_load, modelVars, started,
                   resp, threadVars>>

\* the caller changes the dict it was handed
ModifyHanded ==
    /\ call.fn = "get_supported_languages"
    /\ \E m \in SUBSET LangItems :
         /\ m # langObjs[call.out[1]]
         /\ langObjs' = [langObjs EXCEPT ![call.out[1]] = m]
    /\ UNCHANGED <<drawn, loopVars, envVars, torch_load, original_load, modelVars, started,
                   resp, threadVars, call>>

\* the caller takes the result (and drops a dict it was handed); the next
\* call can be made
ReturnCall ==
    /\ call.fn # "none"
    /\ call' = NoCall
    /\ langObjs' = [langObjs EXCEPT ![2] = {}]
    /\ UNCHANGED <<drawn, loopVars, envVars, torch_load, original_load, modelVars, started,
                   resp, threadVars>>

NextTranslator ==
    \/ CallTranslateText
    \/ CallTranslateDiseaseNames
    \/ CallTranslateResponse
    \/ CallGetSupportedLanguages
    \/ ModifyHanded
    \/ ReturnCall

SpecTranslator == Init /\ [][NextTranslator]_vars

\* ------------- predict requests and direct translate_prediction_response
\* calls in one process, one at a time
NextCore ==
    \/ call.fn = "none" /\ (Startup \/ Predict \/ Deliver)
    \/ resp.op = "none" /\ (CallTranslateResponse \/ ReturnCall)

SpecCore == Init /\ [][NextCore]_vars

\* ------------------------------------------ the annotation of one box
AnnotateDetection ==
    /\ drawn.op = "none"
    /\ \E host \in Hosts, measure \in MeasureOutcomes, cls \in ClassIds,
          y1 \in (-1)..MaxY1 :
         drawn' = DrawLabel(host, measure, cls, y1)
    /\ UNCHANGED <<loopVars, envVars, heapVars, modelVars, started, resp,
                   threadVars, call>>

\* the next box is drawn on the next image
NextImage ==
    /\ drawn.op # "none"
    /\ drawn' = NoLabel
    /\ UNCHANGED <<loopVars, envVars, heapVars, modelVars, started, resp,
                   threadVars, call>>

NextAnnotate == AnnotateDetection \/ NextImage

SpecAnnotate == Init /\ [][NextAnnotate]_vars

\* ------------------------------------- the handlers on the event loop
\* uvicorn.run starts one process with one event loop.  A handler is a
\* coroutine: once started it runs on the loop until it awaits or returns.
\* predict_disease awaits once (file.read()); the other handlers never do.

\* a request comes in: its task waits for the loop
Arrive(r) ==
    /\ tasks[r].at = "idle"
    /\ \/ \E lang \in LangParams :
            tasks' = [tasks EXCEPT ![r] = [kind |-> "predict", lang |-> lang,
                                           at |-> "pending"]]
       \/ \E lang \in Langs :
            tasks' = [tasks EXCEPT ![r] = [kind |-> "translate", lang |-> lang,
                                           at |-> "pending"]]
       \/ tasks' = [tasks EXCEPT ![r] = [kind |-> "languages", lang |-> "none",
                                         at |-> "pending"]]
    /\ UNCHANGED <<drawn, running, envVars, heapVars, modelVars, started, resp,
                   threadVars, call>>

\* the loop starts the handler, which runs to its first await or blocking
\* call: predict_disease suspends in "await file.read()"; translate_text
\* calls translator.translate_text, which returns at once for "en" and
\* otherwise enters GoogleTranslator.translate; get_supported_languages
\* returns
Start(r) ==
    /\ running = 0
    /\ tasks[r].at = "pending"
    /\ IF tasks[r].kind = "predict"
       THEN /\ tasks' = [tasks EXCEPT ![r].at = "read"]
            /\ UNCHANGED running
       ELSE IF tasks[r].kind = "translate" /\ tasks[r].lang # "en"
       THEN /\ tasks' = [tasks EXCEPT ![r].at = "translating"]
            /\ running' = r
       ELSE /\ tasks' = [tasks EXCEPT ![r].at = "done"]
            /\ UNCHANGED running
    /\ UNCHANGED <<drawn, envVars, heapVars, modelVars, started, resp, threadVars,
                   call>>

\* the upload has been read: the task can be resumed
ReadDone(r) ==
    /\ tasks[r].at = "read"
    /\ tasks' = [tasks EXCEPT ![r].at = "ready"]
    /\ UNCHANGED <<drawn, running, envVars, heapVars, modelVars, started, resp,
                   threadVars, call>>

\* the loop resumes predict_disease after the await; it runs into
\* get_model(), which constructs the model when the cache is empty
Resume(r) ==
    /\ running = 0
    /\ tasks[r].at = "ready"
    /\ running' = r
    /\ tasks' = [tasks EXCEPT ![r].at = IF model_instance = None
                                        THEN "load" ELSE "infer"]
    /\ UNCHANGED <<drawn, envVars, heapVars, modelVars, started, resp, threadVars,
                   call>>

\* get_model() returns or raises; on a handle the handler goes on into
\* model.predict
LoadReturns(r) ==
    /\ running = r
    /\ tasks[r].at = "load"
    /\ LET g == get_model
       IN  /\ model_instance' = g.inst
           /\ loads' = g.loads
           /\ failedIn' = Failed(g, "predict")
           /\ IF g.exc = "none"
              THEN /\ tasks' = [tasks EXCEPT ![r].at = "infer"]
                   /\ UNCHANGED running
              ELSE /\ tasks' = [tasks EXCEPT ![r].at = "done"]
                   /\ running' = 0
    /\ UNCHANGED <<drawn, envVars, heapVars, started, resp, threadVars, call>>

\* model.predict returns or raises; with a lang other than "en" the handler
\* goes on into translate_prediction_response
InferReturns(r) ==
    /\ running = r
    /\ tasks[r].at = "infer"
    /\ \E ok \in BOOLEAN :
         IF ok /\ tasks[r].lang \notin {"none", "en"}
         THEN /\ tasks' = [tasks EXCEPT ![r].at = "translating"]
              /\ UNCHANGED running
         ELSE /\ tasks' = [tasks EXCEPT ![r].at = "done"]
              /\ running' = 0
    /\ UNCHANGED <<drawn, envVars, heapVars, modelVars, started, resp, threadVars,
                   call>>

\* the translation calls return (or raise and are caught); the handler
\* returns
TranslateReturns(r) ==
    /\ running = r
    /\ tasks[r].at = "translating"
    /\ tasks' = [tasks EXCEPT ![r].at = "done"]
    /\ running' = 0
    /\ UNCHANGED <<drawn, envVars, heapVars, modelVars, started, resp, threadVars,
                   call>>

\* the response has been sent
Leave(r) ==
    /\ tasks[r].at = "done"
    /\ tasks' = [tasks EXCEPT ![r] = IdleTask]
    /\ UNCHANGED <<drawn, running, envVars, heapVars, modelVars, started, resp,
                   threadVars, call>>

NextLoop ==
    \/ \E r \in Requests : Arrive(r)
    \/ \E r \in Requests : Start(r)
    \/ \E r \in Requests : ReadDone(r)
    \/ \E r \in Requests : Resume(r)
    \/ \E r \in Requests : LoadReturns(r)
    \/ \E r \in Requests : InferReturns(r)
    \/ \E r \in Requests : TranslateReturns(r)
    \/ \E r \in Requests : Leave(r)
    \/ SetWeights
    \/ InstallLibrary

SpecLoop == Init /\ [][NextLoop]_vars

\* ================================================================ claims

HandlerCalledGetModel == resp.op = "none" /\ resp'.gotModel
NoDetections(b) == b.none \/ Len(b.dets) = 0

\* C1: when get_model() is called concurrently with an empty cache, exactly
\* one ModelInference is constructed in every interleaving and every caller
\* gets the same handle.
C1_SingleLoadAndHandle ==
    /\ loads <= 1
    /\ \A t, u \in Threads :
          pc[t] = "done" /\ pc[u] = "done" => ret[t] = ret[u]

\* C2: with get_model() calls made one after another, once a call has
\* returned a handle every later call returns that handle and constructs
\* nothing; at most one construction succeeds per process.
C2_LoadedOnce ==
    [][/\ loads' <= 1
       /\ resp'.handle # None => model_instance' = resp'.handle
       /\ model_instance # None =>
            /\ model_instance' = model_instance
            /\ loads' = loads
            /\ HandlerCalledGetModel =>
                 resp'.handle = model_instance /\ resp'.loadAttempts = 0]_vars

C2_Witness ==
    /\ resp.gotModel /\ resp.cacheBefore # None
    /\ resp.handle = resp.cacheBefore
    /\ resp.loadAttempts = 0 /\ loads = 1

\* C3 as stated: a failed load stores nothing, and a get_model() call made
\* after a failed load constructs again and succeeds once the library is
\* installed and the weights file is present and loadable.
C3_RetrySucceedsOnceCauseRemoved ==
    [][HandlerCalledGetModel =>
         /\ resp'.loadExc # "none" => model_instance' = None
         /\ model_instance = None /\ failedIn # {} => resp'.loadAttempts = 1
         /\ model_instance = None /\ failedIn # {}
              /\ libInstalled /\ weights = "good" =>
              resp'.handle # None /\ model_instance' = resp'.handle]_vars

\* C3, amended: a failed load stores nothing, and a get_model() call made
\* after a failed load constructs again; it succeeds if the weights file is
\* present and loadable and the library was found when the process imported
\* inference.py.
C3_RetryAfterFailedLoad ==
    [][HandlerCalledGetModel =>
         /\ resp'.loadExc # "none" => model_instance' = None
         /\ model_instance = None /\ failedIn # {} => resp'.loadAttempts = 1
         /\ model_instance = None /\ failedIn # {}
              /\ ULTRALYTICS_AVAILABLE /\ weights = "good" =>
              resp'.handle # None /\ model_instance' = resp'.handle]_vars

C3_Witness ==
    /\ {"startup", "health"} \subseteq failedIn
    /\ resp.op = "predict" /\ resp.status = 200
    /\ resp.loadAttempts = 1 /\ resp.handle # None
    /\ model_instance = resp.handle

\* out is in with its items reordered by descending confidence, items of
\* equal confidence in the order they have in in
StableDescending(in, out) ==
    /\ Len(out) = Len(in)
    /\ \E f \in [1..Len(in) -> 1..Len(in)] :
         /\ \A i, j \in 1..Len(in) : f[i] = f[j] => i = j
         /\ \A i \in 1..Len(in) : out[i] = in[f[i]]
         /\ \A i, j \in 1..Len(in) :
              i < j => \/ out[i].confidence > out[j].confidence
                       \/ /\ out[i].confidence = out[j].confidence
                          /\ f[i] < f[j]

\* C4: for a non-empty sequence of detections, all_predictions is the
\* detections' (class_name, confidence) sorted by descending confidence,
\* equal confidences in their original order.
C4_StableDescendingSort ==
    resp.raw # <<>> /\ ~NoDetections(resp.boxes) =>
        StableDescending(Items(resp.boxes.dets), resp.raw[1].all_predictions)

C4_Witness ==
    /\ resp.raw # <<>>
    /\ \E i, j \in 1..Len(resp.boxes.dets) :
         /\ i < j
         /\ resp.boxes.dets[i].conf = resp.boxes.dets[j].conf
         /\ resp.boxes.dets[i].cls # resp.boxes.dets[j].cls
         /\ \E k, l \in 1..Len(resp.raw[1].all_predictions) :
              /\ k < l
              /\ resp.raw[1].all_predictions[k] = Items(resp.boxes.dets)[i]
              /\ resp.raw[1].all_predictions[l] = Items(resp.boxes.dets)[j]

\* C5: when the inference returns no boxes, predict returns normally with
\* disease "No Disease Detected", confidence 0.0 and the single item
\* {"No Disease Detected", 0.0}.
C5_NoDetectionSentinel ==
    resp.op = "predict" /\ resp.inferCalls = 1 /\ resp.inferExc = "none"
        /\ NoDetections(resp.boxes) =>
            /\ resp.status = 200
            /\ resp.raw # <<>>
            /\ resp.raw[1].disease = "No Disease Detected"
            /\ resp.raw[1].confidence = 0
            /\ resp.raw[1].all_predictions =
                 <<[class_name |-> "No Disease Detected", confidence |-> 0]>>

C5_Witness ==
    /\ resp.op = "predict" /\ resp.status = 200
    /\ ~resp.boxes.none /\ Len(resp.boxes.dets) = 0
    /\ resp.raw # <<>>

\* C6: every result of predict has a non-empty all_predictions whose first
\* item carries disease and confidence, and that confidence is the largest
\* confidence among the detections.
C6_PrimaryIsFirstAndMax ==
    resp.raw # <<>> =>
        LET r == resp.raw[1]
            d == resp.boxes.dets
        IN  /\ Len(r.all_predictions) > 0
            /\ r.disease = r.all_predictions[1].class_name
            /\ r.confidence = r.all_predictions[1].confidence
            /\ \A i \in 1..Len(d) : d[i].conf <= r.confidence
            /\ Len(d) > 0 =>
                 \E i \in 1..Len(d) : /\ d[i].conf = r.confidence
                                      /\ ClassNames[d[i].cls + 1] = r.disease

C6_Witness ==
    /\ resp.raw # <<>>
    /\ Len(resp.boxes.dets) >= 2
    /\ resp.boxes.dets[1].conf < resp.boxes.dets[2].conf
    /\ resp.raw[1].confidence = resp.boxes.dets[2].conf

\* C7: the response of a predict request translated to any language still
\* has disease = all_predictions[0].class_name, also when some calls of the
\* translation capability raise and others do not.
C7_TranslatedPrimaryIsFirst ==
    resp.op = "predict" /\ resp.body # <<>> =>
        resp.body[1].disease = resp.body[1].all_predictions[1].class_name

\* C8: translate_prediction_response(result, "en") returns result, and
\* translate_text with target "en" or target = source returns its text;
\* neither calls the translation capability.
C8_IdentityShortcut ==
    /\ call.fn = "translate_prediction_response" /\ call.lang = "en" =>
         call.out = call.value /\ call.sent = <<>>
    /\ call.fn = "translate_text"
         /\ (call.lang = "en" \/ call.lang = call.source) =>
         call.out = call.value /\ call.sent = <<>>

C8_Witness ==
    /\ call.fn = "translate_text"
    /\ call.lang = call.source /\ call.lang # "en"
    /\ ~call.fails[1]
    /\ call.out = call.value

\* C9: for a target other than "en", translate_prediction_response returns
\* whatever calls of the capability raise: a field whose call raised keeps
\* its string, every other field carries the translation, and disease and
\* every class_name were submitted.
C9_PerFieldFallback ==
    call.fn = "translate_prediction_response" /\ call.lang # "en" =>
        LET in == call.value[1]
            out == call.out[1]
            n == Len(in.all_predictions)
            Expected(text, failed) ==
                IF failed THEN text ELSE GoogleTranslate(text, "en", call.lang)
        IN  /\ Len(call.out) = 1
            /\ out.disease = Expected(in.disease, call.fails[1])
            /\ Len(out.all_predictions) = n
            /\ \A i \in 1..n :
                 out.all_predictions[i].class_name =
                   Expected(in.all_predictions[i].class_name, call.fails[i + 1])
            /\ call.sent = <<in.disease>> \o
                 [i \in 1..n |-> in.all_predictions[i].class_name]

C9_Witness ==
    /\ call.fn = "translate_prediction_response" /\ call.lang = "es"
    /\ Len(call.fails) = 3
    /\ ~call.fails[1] /\ call.fails[2] /\ ~call.fails[3]
    /\ call.out[1].all_predictions[2].class_name #
         call.value[1].all_predictions[2].class_name

\* C10: a predict request whose model load fails because the library is
\* unavailable or the weights file is missing is answered with the
\* service-unavailable status, not the generic error status and not a
\* result, and runs no inference, annotation or translation.
C10_LoadFailureIsServiceUnavailable ==
    resp.op = "predict" /\ resp.loadExc \in {"ImportError", "FileNotFoundError"} =>
        /\ resp.status = 503
        /\ resp.body = <<>>
        /\ resp.inferCalls = 0
        /\ resp.annotations = 0
        /\ resp.translations = 0

C10_Witness ==
    /\ resp.op = "predict" /\ resp.loadExc = "FileNotFoundError"
    /\ resp.loadAttempts = 1 /\ resp.status = 503

\* C11: a failure raised by the detection capability during a predict
\* request is answered as an inference failure (the generic error status,
\* never a result and never the service-unavailable status of a failed
\* load), and the cached model handle stays the one the request used.
C11_InferenceFailureSurfaces ==
    resp.op = "predict" /\ resp.inferExc # "none" =>
        /\ resp.status = 500
        /\ resp.body = <<>>
        /\ resp.handle # None
        /\ model_instance = resp.handle

\* C12: get_supported_languages calls no external capability and returns
\* the same code-to-name mapping whatever happened before, also after a
\* caller changed a mapping it was handed; SUPPORTED_LANGUAGES itself never
\* changes.
C12_CatalogUnchanged ==
    [][/\ langObjs'[1] = SUPPORTED_LANGUAGES
       /\ call.fn = "none" /\ call'.fn = "get_supported_languages" =>
            /\ langObjs'[call'.out[1]] = SUPPORTED_LANGUAGES
            /\ call'.sent = <<>>]_vars

C12_Witness ==
    /\ call.fn = "get_supported_languages"
    /\ langObjs[call.out[1]] # SUPPORTED_LANGUAGES
    /\ <<"xx", "Klingon">> \in langObjs[call.out[1]]
    /\ langObjs[1] = SUPPORTED_LANGUAGES

\* C13: translate_prediction_response for a target language other than "en"
\* changes only the strings disease and all_predictions[i].class_name: the
\* list returned has the length and order of the one passed in with each
\* confidence kept, confidence and annotated_image are kept, and the dict
\* passed in and its items are as they were before the call.
C13_OnlyNamesChange ==
    call.fn = "translate_prediction_response" /\ call.lang # "en" =>
        LET in == call.value[1]
            out == call.out[1]
        IN  /\ DOMAIN out = DOMAIN in
            /\ \A k \in DOMAIN in \ {"disease", "all_predictions"} :
                 out[k] = in[k]
            /\ Len(out.all_predictions) = Len(in.all_predictions)
            /\ \A i \in 1..Len(in.all_predictions) :
                 /\ DOMAIN out.all_predictions[i] = DOMAIN in.all_predictions[i]
                 /\ \A k \in DOMAIN in.all_predictions[i] \ {"class_name"} :
                      out.all_predictions[i][k] = in.all_predictions[i][k]
            /\ call.arg[1] = in

C13_Witness ==
    /\ call.fn = "translate_prediction_response" /\ call.lang = "es"
    /\ Len(call.value[1].all_predictions) = MaxDet
    /\ call.out[1].disease # call.value[1].disease
    /\ \A i \in 1..MaxDet :
         call.out[1].all_predictions[i].class_name
             # call.value[1].all_predictions[i].class_name
    /\ call.arg[1] = call.value[1]

\* C15: while one request is inside the model load or inside a translation
\* call, a waiting request that needs neither can be taken up by the event
\* loop.
C15_OthersProgress ==
    \A r, q \in Requests :
        /\ tasks[r].at \in {"load", "translating"}
        /\ tasks[q].at = "pending" /\ tasks[q].kind = "languages"
        => ENABLED Start(q)

\* the texts of the translatable fields of a result, disease first
TranslatableFields(response) ==
    <<response.disease>> \o
    [i \in 1..Len(response.all_predictions) |->
        response.all_predictions[i].class_name]

\* C16 as stated: a predict request makes at most one load attempt and at
\* most one inference call, and every translate_prediction_response call
\* submits each translatable field exactly once (1 + the number of
\* predictions texts), whether or not a call fails.
C16_OncePerFieldEveryCall ==
    /\ resp.op = "predict" =>
         /\ resp.loadAttempts <= 1 /\ resp.inferCalls <= 1
         /\ resp.translations = 1 =>
              resp.sent = TranslatableFields(resp.raw[1])
    /\ call.fn = "translate_prediction_response" =>
         /\ Len(call.sent) = 1 + Len(call.value[1].all_predictions)
         /\ call.sent = TranslatableFields(call.value[1])

\* C16 amended: a predict request makes at most one load attempt and at most
\* one inference call; a translate_prediction_response call for a target
\* language other than "en" submits each translatable field exactly once,
\* whether or not a call fails, and a call for "en" submits nothing.
C16_NoRetry ==
    /\ resp.op = "predict" =>
         /\ resp.loadAttempts <= 1 /\ resp.inferCalls <= 1
         /\ resp.translations = 1 =>
              resp.sent = TranslatableFields(resp.raw[1])
    /\ call.fn = "translate_prediction_response" =>
         IF call.lang = "en"
         THEN call.sent = <<>>
         ELSE /\ Len(call.sent) = 1 + Len(call.value[1].all_predictions)
              /\ call.sent = TranslatableFields(call.value[1])

C16_Witness ==
    /\ call.fn = "translate_prediction_response" /\ call.lang = "es"
    /\ Len(call.value[1].all_predictions) = MaxDet
    /\ call.fails[1] /\ call.fails[MaxDet + 1]
    /\ Len(call.sent) = 1 + MaxDet
    /\ loads = 1

\* C17: whenever no ModelInference construction is between its patch and
\* its restore, torch.load is the original function, also after
\* constructions that overlapped.
C17_LoaderRestored ==
    (\A t \in Threads : pc[t] # "load") => torch_load = OriginalLoad

\* C18: drawing the label of a detection never raises for lack of a font;
\* when there is no font or measuring raises, the label is taken as 6 pixels
\* per character wide and 12 high; and the label's y-origin is
\* max(0, y1 - text_height - 5), never negative.
C18_LabelWithoutFont ==
    drawn.op = "label" =>
        /\ ~drawn.raised
        /\ (drawn.font = NoFont \/ drawn.measure = "raises") =>
             /\ drawn.text_width = 6 * drawn.chars
             /\ drawn.text_height = 12
        /\ drawn.label_y >= 0
        /\ drawn.label_y >= drawn.y1 - drawn.text_height - 5
        /\ drawn.label_y \in {0, drawn.y1 - drawn.text_height - 5}

====
